---- MODULE Spec2Model ----
(***************************************************************************)
(* Model of the streaming / registry engine of Stremio_F2L:                *)
(*   Backend/fastapi/routes/stream_routes.py   (/dl handler, chunk plan)   *)
(*   Backend/pyrofork/plugins/file_to_link.py  (upload handler, /link)     *)
(* Collaborators whose code is not part of the sources at hand             *)
(* (ByteStreamer, Database, encode_string/decode_string) are modelled from *)
(* the specification's description of them.                                *)
(***************************************************************************)
EXTENDS Integers, Sequences, FiniteSets, TLC

VARIABLES
    work_loads,        \* Backend.pyrofork.bot.work_loads: client index -> load counter
    class_cache,       \* stream_routes.class_cache: client index -> adapter (0 = none)
    dump,              \* the FILE_TO_LINK_DUMP channel: message id -> stored object
    issued,            \* tokens that encode_string has produced for issued links
    Telegram,          \* Backend.config.Telegram: the deployment's settings
    san,               \* calls of sanitize_filename: argument and returned names
    shards,            \* db.dbs["storage_i"]["file_to_link"]: shard -> sequence of records
    temp_cache,        \* file_to_link.temp_cache: <<user id, message id>> -> file_db_id
    lk,                \* /link commands: command -> locals of link_command_handler
    mg,                \* management requests: request -> locals of the manage_routes handler
    up,                \* upload handlers: handler -> locals of file_to_link_handler
    rq                 \* /dl requests: request -> locals of stream_handler/media_streamer

vars == <<work_loads, class_cache, dump, issued, Telegram, san, shards, temp_cache, lk, mg, up, rq>>

----------------------------------------------------------------------------
(* Bounds of the model *)

MaxRequests == 2
MaxUploads == 2
NumClients == 2
MaxLinks == 2
MaxManage == 2

Requests == 1..MaxRequests
Uploads == 1..MaxUploads
Clients == 1..NumClients
Links == 1..MaxLinks
Manage == 1..MaxManage

----------------------------------------------------------------------------
(* Generic helpers *)

Min(a, b) == IF a <= b THEN a ELSE b

Max(a, b) == IF a >= b THEN a ELSE b

\* math.floor(a / b) for a >= 0, b > 0
FloorDiv(a, b) == a \div b

\* a rounding that goes down where math.ceil goes up
CeilDivAsFloor(a, b) == a \div b

\* math.ceil(a / b) for a >= 0, b > 0
CeilDiv(a, b) == (a + b - 1) \div b

RECURSIVE SumSeq(_)
SumSeq(s) == IF s = <<>> THEN 0 ELSE Head(s) + SumSeq(Tail(s))

----------------------------------------------------------------------------
(* Remote store objects.  An object is identified by its store-assigned    *)
(* unique id (a character sequence) and has a size in bytes.  The content  *)
(* of an object is addressed by byte position, so a buffer of bytes of an  *)
(* object is the half-open interval [lo, hi) of positions it holds.        *)

MiB == 1024 * 1024

NoFile == [present |-> FALSE, unique_id |-> <<>>, file_size |-> 0]

Obj(uid, size) == [present |-> TRUE, unique_id |-> uid, file_size |-> size]

UidA == <<"A", "g", "A", "D", "x", "1", "p", "q">>
UidB == <<"A", "g", "A", "D", "x", "1", "r", "s">>   \* same first 6 characters as UidA
UidC == <<"B", "Q", "A", "C", "y", "2", "p", "q">>

ObjA == Obj(UidA, 3 * MiB)
ObjB == Obj(UidB, MiB + 1)
ObjC == Obj(UidC, 1)

\* file.file_unique_id[:6]
Prefix6(uid) == SubSeq(uid, 1, Min(6, Len(uid)))

\* a guard that never reports a mismatch
FingerprintNeverMismatch(file_id, secure_hash) == FALSE

\* media_streamer's guard: file_id.unique_id[:6] != secure_hash
FingerprintMismatch(file_id, secure_hash) == Prefix6(file_id.unique_id) # secure_hash

\* Python slice buf[a:b] of a buffer holding positions [lo, hi), 0 <= a, 0 <= b
Slice(buf, a, b) ==
    LET lo == Min(buf.lo + a, buf.hi)
        hi == Min(buf.lo + b, buf.hi)
    IN  [lo |-> lo, hi |-> Max(lo, hi)]

BufLen(buf) == buf.hi - buf.lo

\* number of bytes of a body (sequence of buffers)
BodyLen(body) == SumSeq([i \in 1..Len(body) |-> BufLen(body[i])])

RECURSIVE Contiguous(_, _)
\* the non-empty buffers of body hold consecutive positions starting at pos;
\* yields the position after the last byte, or -1 when there is a gap
Contiguous(body, pos) ==
    IF body = <<>> THEN pos
    ELSE IF BufLen(Head(body)) = 0 THEN Contiguous(Tail(body), pos)
    ELSE IF Head(body).lo # pos THEN -1
    ELSE Contiguous(Tail(body), Head(body).hi)

\* body is byte for byte source[a..b]
BodyIsSlice(body, a, b) == Contiguous(body, a) = b + 1

----------------------------------------------------------------------------
(* Decimal text of integers.  Texts are sequences of characters.           *)
(* (str and int of the code)                                               *)

Digits == <<"0", "1", "2", "3", "4", "5", "6", "7", "8", "9">>

IsDigit(c) == \E d \in 1..10 : Digits[d] = c

DigitVal(c) == (CHOOSE d \in 1..10 : Digits[d] = c) - 1

RECURSIVE IntToStr(_)
\* str(n)
IntToStr(n) ==
    IF n < 0 THEN <<"-">> \o IntToStr(0 - n)
    ELSE IF n < 10 THEN <<Digits[n + 1]>>
    ELSE IntToStr(n \div 10) \o <<Digits[(n % 10) + 1]>>

AllDigits(s) == Len(s) > 0 /\ \A i \in 1..Len(s) : IsDigit(s[i])

RECURSIVE DigitsToInt(_)
DigitsToInt(s) ==
    IF s = <<>> THEN 0
    ELSE 10 * DigitsToInt(SubSeq(s, 1, Len(s) - 1)) + DigitVal(s[Len(s)])

\* int(s)
StrToInt(s) == IF s[1] = "-" THEN 0 - DigitsToInt(Tail(s)) ELSE DigitsToInt(s)

----------------------------------------------------------------------------
(* Range header: the text of the request's Range header, the empty text    *)
(* when the request carries none.                                          *)

BytesEq == <<"b", "y", "t", "e", "s", "=">>

NoRange == <<>>

\* "bytes=<a>-<b>" and "bytes=<a>-"
RangeFromTo(a, b) == BytesEq \o IntToStr(a) \o <<"-">> \o IntToStr(b)
RangeFrom(a) == BytesEq \o IntToStr(a) \o <<"-">>

RECURSIVE RemoveBytesEq(_)
\* range_header.replace("bytes=", ""): every occurrence, left to right
RemoveBytesEq(s) ==
    IF s = <<>> THEN <<>>
    ELSE IF Len(s) >= 6 /\ SubSeq(s, 1, 6) = BytesEq
    THEN RemoveBytesEq(SubSeq(s, 7, Len(s)))
    ELSE <<Head(s)>> \o RemoveBytesEq(Tail(s))

RECURSIVE SplitDash(_)
\* range_value.split("-")
SplitDash(s) ==
    IF \E i \in 1..Len(s) : s[i] = "-"
    THEN LET p == CHOOSE i \in 1..Len(s) : s[i] = "-" /\ \A j \in 1..(i - 1) : s[j] # "-"
         IN  <<SubSeq(s, 1, p - 1)>> \o SplitDash(SubSeq(s, p + 1, Len(s)))
    ELSE <<s>>

\* int(s) does not raise: digits with an optional sign
IntLiteral(s) ==
    \/ AllDigits(s)
    \/ Len(s) > 1 /\ s[1] \in {"+", "-"} /\ AllDigits(Tail(s))

\* int(s) of such a text
ParseInt(s) == IF s[1] = "+" THEN DigitsToInt(Tail(s)) ELSE StrToInt(s)

Window(res, a, b) ==
    [res |-> res, from_bytes |-> a, until_bytes |-> b, content_range |-> <<>>]

\* a test that lets every window pass
UnsatisfiableNever(from_bytes, until_bytes, file_size) == FALSE

\* the test of line 28
Unsatisfiable(from_bytes, until_bytes, file_size) ==
    (until_bytes > file_size - 1) \/ (from_bytes < 0) \/ (until_bytes < from_bytes)

\* a header value that names the last position instead of the size
ContentRangeOfLast(file_size) ==
    <<"b", "y", "t", "e", "s", " ", "*", "/">> \o IntToStr(file_size - 1)

\* f"bytes */{file_size}"
ContentRangeUnsatisfied(file_size) ==
    <<"b", "y", "t", "e", "s", " ", "*", "/">> \o IntToStr(file_size)

\* a header value that names the last position instead of the size
ContentRangeToLast(from_bytes, until_bytes, file_size) ==
    <<"b", "y", "t", "e", "s", " ">> \o IntToStr(from_bytes) \o <<"-">>
        \o IntToStr(until_bytes) \o <<"/">> \o IntToStr(file_size - 1)

\* f"bytes {from_bytes}-{until_bytes}/{file_size}"
ContentRange(from_bytes, until_bytes, file_size) ==
    <<"b", "y", "t", "e", "s", " ">> \o IntToStr(from_bytes) \o <<"-">>
        \o IntToStr(until_bytes) \o <<"/">> \o IntToStr(file_size)

parse_range_header(range_header, file_size) ==
    IF range_header = <<>> THEN Window("ok", 0, file_size - 1)
    ELSE LET parts == SplitDash(RemoveBytesEq(range_header)) IN
         IF Len(parts) # 2 THEN Window("400", 0, 0)
         ELSE IF ~IntLiteral(parts[1]) \/ (parts[2] # <<>> /\ ~IntLiteral(parts[2]))
         THEN Window("400", 0, 0)
         ELSE LET from_bytes == ParseInt(parts[1])
                  until_bytes == IF parts[2] # <<>> THEN ParseInt(parts[2])
                                 ELSE file_size - 1
              IN  IF Unsatisfiable(from_bytes, until_bytes, file_size)
                  THEN [Window("416", from_bytes, until_bytes)
                            EXCEPT !.content_range = ContentRangeUnsatisfied(file_size)]
                  ELSE Window("ok", from_bytes, until_bytes)

----------------------------------------------------------------------------
(* Chunk plan of media_streamer *)

chunk_size == 1024 * 1024

ChunkPlan(from_bytes, until_bytes) ==
    LET offset == from_bytes - (from_bytes % chunk_size)
    IN  [offset |-> offset,
         first_part_cut |-> from_bytes - offset,
         last_part_cut |-> (until_bytes % chunk_size) + 1,
         req_length |-> until_bytes - from_bytes + 1,
         part_count |-> CeilDiv(until_bytes, chunk_size) - FloorDiv(offset, chunk_size)]

NoPlan == [offset |-> 0, first_part_cut |-> 0, last_part_cut |-> 0,
           req_length |-> 0, part_count |-> 0]

\* upstream read of one chunk of an object: the bytes [at, at + limit) that exist
ReadChunk(file, at, limit) ==
    [lo |-> Min(at, file.file_size), hi |-> Min(at + limit, file.file_size)]

\* the buffer yield_file yields for the k-th read (k = 1..part_count) of a plan
YieldPart(file, plan, k) ==
    LET chunk == ReadChunk(file, plan.offset + (k - 1) * chunk_size, chunk_size)
    IN  IF plan.part_count = 1
        THEN Slice(chunk, plan.first_part_cut, plan.last_part_cut)
        ELSE IF k = 1 THEN Slice(chunk, plan.first_part_cut, chunk_size)
        ELSE IF k = plan.part_count THEN Slice(chunk, 0, plan.last_part_cut)
        ELSE chunk

----------------------------------------------------------------------------
(* Link codec: encode_string / decode_string.  The coordinate              *)
(* {chat_id, msg_id} is serialised as "<chat_id>:<msg_id>" and the         *)
(* serialisation is reversed character by character.                       *)

Reverse(s) == [i \in 1..Len(s) |-> s[Len(s) + 1 - i]]

\* position of the first ":" of s, 0 when there is none
SepPos(s) ==
    IF \E i \in 1..Len(s) : s[i] = ":"
    THEN CHOOSE i \in 1..Len(s) : s[i] = ":" /\ \A j \in 1..(i - 1) : s[j] # ":"
    ELSE 0

\* encode_string({"chat_id": chat_id, "msg_id": msg_id}); chat_id a string
encode_string(chat_id, msg_id) == Reverse(chat_id \o <<":">> \o IntToStr(msg_id))

Decoded(ok, has, chat_id, msg_id) ==
    [ok |-> ok, has_msg_id |-> has, chat_id |-> chat_id, msg_id |-> msg_id]

\* decode_string(token): fails (ok = FALSE) when the text is no serialised
\* structure; a structure without the msg_id field decodes with has_msg_id = FALSE
decode_string(token) ==
    LET s == Reverse(token)
        p == SepPos(s)
    IN  IF p = 0
        THEN IF AllDigits(s) THEN Decoded(TRUE, FALSE, s, 0)
             ELSE Decoded(FALSE, FALSE, <<>>, 0)
        ELSE LET c == SubSeq(s, 1, p - 1)
                 m == SubSeq(s, p + 1, Len(s))
             IN  IF AllDigits(c) /\ AllDigits(m)
                 THEN Decoded(TRUE, TRUE, c, DigitsToInt(m))
                 ELSE Decoded(FALSE, FALSE, <<>>, 0)

----------------------------------------------------------------------------
(* The dump channel *)

FILE_TO_LINK_DUMP == 0 - 1007

\* a record that keeps the container id as it is configured
StripNothing(s) == s

\* the first occurrence of "-100" at the head of a string removed; the
\* string form of an integer holds "-" only at its head
StripMinus100(s) ==
    IF Len(s) >= 4 /\ SubSeq(s, 1, 4) = <<"-", "1", "0", "0">>
    THEN SubSeq(s, 5, Len(s)) ELSE s

\* str(Telegram.FILE_TO_LINK_DUMP).replace("-100", "")
dump_chat_id == StripMinus100(IntToStr(FILE_TO_LINK_DUMP))

\* client.get_messages(chat, msg_id) / resolveObject: the media of the message,
\* NoFile when the message does not exist or carries no video or document
GetMedia(chat, msg_id) ==
    IF chat = FILE_TO_LINK_DUMP /\ msg_id \in 1..Len(dump) THEN dump[msg_id] ELSE NoFile

\* ByteStreamer.get_file_properties(chat_id, message_id): the object the
\* coordinate resolves to at the time of the call
get_file_properties(chat_id, message_id) == GetMedia(chat_id, message_id)

----------------------------------------------------------------------------
(* Session selection *)

\* min(work_loads, key=work_loads.get): the first key, in iteration order, of
\* minimal load
LeastLoaded(loads) ==
    CHOOSE i \in DOMAIN loads :
        /\ \A j \in DOMAIN loads : loads[i] <= loads[j]
        /\ \A j \in DOMAIN loads : (j < i) => (loads[j] > loads[i])

----------------------------------------------------------------------------
(* /dl requests: stream_handler and media_streamer.                        *)
(* pc is the await the request is suspended at:                            *)
(*   idle -> decode_string -> get_messages -> get_file_properties ->       *)
(*   body (response returned, yield_file being drained) -> done            *)
(* or failed (the handler raised), aborted (an upstream read failed) and   *)
(* closed (the client went away).                                          *)

RqIdle ==
    [pc |-> "idle", token |-> <<>>, range_header |-> NoRange,
     chat_id |-> 0, id |-> 0, secure_hash |-> <<>>, index |-> 0,
     file_id |-> NoFile, from_bytes |-> 0, until_bytes |-> 0, plan |-> NoPlan,
     status_code |-> 0, content_length |-> 0 - 1, error |-> "",
     content_range |-> <<>>, started |-> FALSE, current_part |-> 0, body |-> <<>>,
     tg_connect |-> 0, accept_ranges |-> ""]

\* the request raises: no response body is ever created
Raise(r, err, code) == [rq[r] EXCEPT !.pc = "failed", !.error = err, !.status_code = code]

\* a client sends GET /dl/{token}/{name} with a Range header
StreamRequest(r, token, range_header) ==
    /\ rq[r].pc = "idle"
    /\ \A q \in Requests : q < r => rq[q].pc # "idle"
    /\ rq' = [rq EXCEPT ![r] = [@ EXCEPT !.pc = "decode_string", !.token = token,
                                         !.range_header = range_header]]
    /\ UNCHANGED <<work_loads, class_cache, dump, issued, Telegram, san, shards, temp_cache, lk, mg, up>>

\* stream_handler resumes from decode_string and calls StreamBot.get_messages
StreamDecoded(r) ==
    /\ rq[r].pc = "decode_string"
    /\ LET decoded_data == decode_string(rq[r].token) IN
       rq' = [rq EXCEPT ![r] =
                IF ~decoded_data.ok THEN Raise(r, "MalformedToken", 0)
                ELSE IF ~decoded_data.has_msg_id \/ decoded_data.msg_id = 0
                THEN Raise(r, "MissingId", 400)
                ELSE [@ EXCEPT !.pc = "get_messages",
                               !.chat_id = StrToInt(<<"-", "1", "0", "0">> \o decoded_data.chat_id),
                               !.id = decoded_data.msg_id]]
    /\ UNCHANGED <<work_loads, class_cache, dump, issued, Telegram, san, shards, temp_cache, lk, mg, up>>

\* an adapter made anew for every request
AdapterAlwaysNew(cache, index, r) == r

\* class_cache.get(faster_client), or ByteStreamer(faster_client) when the
\* session has none; the adapter made for request r is named r
AdapterFor(cache, index, r) == IF cache[index] = 0 THEN r ELSE cache[index]

\* stream_handler resumes from get_messages, takes the fingerprint of the
\* message's media and enters media_streamer up to its first await
StreamGotMessage(r) ==
    /\ rq[r].pc = "get_messages"
    /\ LET file == GetMedia(rq[r].chat_id, rq[r].id)
           index == LeastLoaded(work_loads)
       IN  IF ~file.present
           THEN /\ rq' = [rq EXCEPT ![r] = Raise(r, "AttributeError", 0)]
                /\ UNCHANGED class_cache
           ELSE /\ rq' = [rq EXCEPT ![r] = [@ EXCEPT !.pc = "get_file_properties",
                                                     !.secure_hash = Prefix6(file.unique_id),
                                                     !.index = index,
                                                     !.tg_connect =
                                                         AdapterFor(class_cache, index, r)]]
                /\ class_cache' = IF class_cache[index] = 0
                                  THEN [class_cache EXCEPT ![index] =
                                            AdapterFor(class_cache, index, r)]
                                  ELSE class_cache
    /\ UNCHANGED <<work_loads, dump, issued, Telegram, san, shards, temp_cache, lk, mg, up>>

\* media_streamer resumes from get_file_properties: fingerprint check, range
\* negotiation, chunk plan, and the StreamingResponse is returned
StreamResolved(r) ==
    /\ rq[r].pc = "get_file_properties"
    /\ LET file_id == get_file_properties(rq[r].chat_id, rq[r].id)
           win == parse_range_header(rq[r].range_header, file_id.file_size)
       IN  rq' = [rq EXCEPT ![r] =
                IF ~file_id.present THEN Raise(r, "ObjectNotFound", 0)
                ELSE IF FingerprintMismatch(file_id, rq[r].secure_hash)
                THEN Raise(r, "InvalidHash", 0)
                ELSE IF win.res = "400" THEN Raise(r, "InvalidRange", 400)
                ELSE IF win.res = "416"
                THEN [Raise(r, "RangeNotSatisfiable", 416)
                          EXCEPT !.content_range = win.content_range]
                ELSE [@ EXCEPT !.pc = "body",
                               !.file_id = file_id,
                               !.from_bytes = win.from_bytes,
                               !.until_bytes = win.until_bytes,
                               !.plan = ChunkPlan(win.from_bytes, win.until_bytes),
                               !.content_length = win.until_bytes - win.from_bytes + 1,
                               !.content_range =
                                   IF rq[r].range_header # NoRange
                                   THEN ContentRange(win.from_bytes, win.until_bytes,
                                                     file_id.file_size)
                                   ELSE <<>>,
                               !.accept_ranges = "bytes",
                               !.status_code = IF rq[r].range_header # NoRange THEN 206
                                               ELSE 200]]
    /\ UNCHANGED <<work_loads, class_cache, dump, issued, Telegram, san, shards, temp_cache, lk, mg, up>>

\* yield_file is resumed for the first time: the session's load is taken
YieldStart(r) ==
    /\ rq[r].pc = "body"
    /\ ~rq[r].started
    /\ rq' = [rq EXCEPT ![r] = [@ EXCEPT !.started = TRUE]]
    /\ work_loads' = [work_loads EXCEPT ![rq[r].index] = @ + 1]
    /\ UNCHANGED <<class_cache, dump, issued, Telegram, san, shards, temp_cache, lk, mg, up>>

\* yield_file reads the next chunk upstream and yields it trimmed
YieldChunk(r) ==
    /\ rq[r].pc = "body"
    /\ rq[r].started
    /\ rq[r].current_part < rq[r].plan.part_count
    /\ rq' = [rq EXCEPT ![r] =
                [@ EXCEPT !.current_part = @ + 1,
                          !.body = Append(@, YieldPart(rq[r].file_id, rq[r].plan,
                                                       rq[r].current_part + 1))]]
    /\ UNCHANGED <<work_loads, class_cache, dump, issued, Telegram, san, shards, temp_cache, lk, mg, up>>

\* a release that is forgotten
ReleaseForgotten(loads, index) == loads

\* the load yield_file gives back when it is left
Release(loads, index) == [loads EXCEPT ![index] = @ - 1]

\* yield_file has issued all reads of the plan and returns
YieldEnd(r) ==
    /\ rq[r].pc = "body"
    /\ rq[r].started
    /\ rq[r].current_part >= rq[r].plan.part_count
    /\ rq' = [rq EXCEPT ![r] = [@ EXCEPT !.pc = "done"]]
    /\ work_loads' = Release(work_loads, rq[r].index)
    /\ UNCHANGED <<class_cache, dump, issued, Telegram, san, shards, temp_cache, lk, mg, up>>

\* an upstream read fails (UpstreamUnavailable): yield_file is left
YieldFail(r) ==
    /\ rq[r].pc = "body"
    /\ rq[r].started
    /\ rq[r].current_part < rq[r].plan.part_count
    /\ rq' = [rq EXCEPT ![r] = [@ EXCEPT !.pc = "aborted"]]
    /\ work_loads' = Release(work_loads, rq[r].index)
    /\ UNCHANGED <<class_cache, dump, issued, Telegram, san, shards, temp_cache, lk, mg, up>>

\* the client disconnects while the body is being streamed: the chunk
\* sequence is cancelled
ClientDisconnect(r) ==
    /\ rq[r].pc = "body"
    /\ rq' = [rq EXCEPT ![r] = [@ EXCEPT !.pc = "closed"]]
    /\ work_loads' = IF rq[r].started THEN Release(work_loads, rq[r].index)
                     ELSE work_loads
    /\ UNCHANGED <<class_cache, dump, issued, Telegram, san, shards, temp_cache, lk, mg, up>>

\* the media of a message of the dump channel is replaced upstream
EditMessage(m, obj) ==
    /\ m \in 1..Len(dump)
    /\ dump[m] # obj
    /\ dump' = [dump EXCEPT ![m] = obj]
    /\ UNCHANGED <<work_loads, class_cache, issued, Telegram, san, shards, temp_cache, lk, mg, up, rq>>

----------------------------------------------------------------------------
(* Initial state and inputs *)

UpIdle == [pc |-> "idle", user_id |-> 0, file_hash |-> "", is_video |-> FALSE,
           after_all |-> FALSE]

LkIdle == [pc |-> "idle", user_id |-> 0, reply_to |-> 0, after_upload |-> FALSE,
           error |-> "", reply |-> ""]

MgIdle == [pc |-> "idle", op |-> "", username |-> "", password |-> "", file_id |-> 0,
           page |-> 0, page_size |-> 0, search |-> <<>>,
           i |-> 0, all_files |-> <<>>, files |-> <<>>, total_count |-> 0 - 1,
           status_code |-> 0]

\* the gateway starts on a dump channel and a registry (the database outlives
\* the process)
\* sanitize_filename not yet called
SanIdle == [pc |-> "idle", filename |-> <<>>, url_safe_filename |-> <<>>, again |-> <<>>]

InitConfigured(channel, registry, dump_id) ==
    /\ Telegram = [FILE_TO_LINK_DUMP |-> dump_id]
    /\ san = SanIdle
    /\ work_loads = [c \in Clients |-> 0]
    /\ class_cache = [c \in Clients |-> 0]
    /\ dump = channel
    /\ issued = {}
    /\ shards = registry
    /\ temp_cache = <<>>
    /\ lk = [l \in Links |-> LkIdle]
    /\ mg = [g \in Manage |-> MgIdle]
    /\ up = [h \in Uploads |-> UpIdle]
    /\ rq = [r \in Requests |-> RqIdle]

\* the deployment with FILE_TO_LINK_DUMP configured
InitState(channel, registry) == InitConfigured(channel, registry, FILE_TO_LINK_DUMP)

InitWith(channel) == InitState(channel, <<<<>>>>)

\* the dump channel holds one video when the gateway starts
Init == InitWith(<<ObjA>>)

\* the token of message m of the dump channel
Token(m) == encode_string(dump_chat_id, m)

----------------------------------------------------------------------------
(* SpecRange: one /dl request over every window on the chunk grid *)

Boundary == {0, 1, MiB - 576, MiB - 76, MiB - 1, MiB, MiB + 1, 2 * MiB - 1, 2 * MiB,
             2 * MiB + 48, 2 * MiB + 2848, 3 * MiB - 1}

RangeHeaders ==
    {NoRange} \cup {RangeFrom(a) : a \in Boundary}
    \cup {RangeFromTo(a, b) : a \in Boundary, b \in Boundary}

InitRange == \E obj \in {ObjA, ObjB, ObjC} : InitWith(<<obj>>)

NextRange ==
    \/ \E h \in RangeHeaders : StreamRequest(1, Token(1), h)
    \/ StreamDecoded(1)
    \/ StreamGotMessage(1)
    \/ StreamResolved(1)
    \/ YieldStart(1)
    \/ YieldChunk(1)
    \/ YieldEnd(1)

SpecRange == InitRange /\ [][NextRange]_vars

----------------------------------------------------------------------------
(* Claims on the chunk plan and the ranged response *)

\* the request has a satisfiable window and its body has been streamed to the end
Streamed(r) == rq[r].pc = "done"

\* C1 (as claimed): for every window 0 <= from <= until <= S-1 the chunks fetched
\* and trimmed by the plan of media_streamer add up to exactly until - from + 1
\* bytes, windows whose until is 0 or a multiple of the chunk size included
C1_PlanLengthExact ==
    \A r \in Requests :
        Streamed(r) =>
            /\ rq[r].current_part = rq[r].plan.part_count
            /\ BodyLen(rq[r].body) = rq[r].until_bytes - rq[r].from_bytes + 1

\* C2 (as claimed): from = 1048500, until = 2097200 is planned as offset 0,
\* first cut 1048500 and 2 chunks
C2_ExampleTwoChunks ==
    \A r \in Requests :
        (rq[r].pc = "body" /\ rq[r].from_bytes = 1048500 /\ rq[r].until_bytes = 2097200)
            => /\ rq[r].plan.offset = 0
               /\ rq[r].plan.first_part_cut = 1048500
               /\ rq[r].plan.part_count = 2

\* C2 (amended): from = 1048500, until = 2097200 is planned as offset 0, first
\* cut 1048500 and 3 chunks (the window ends 48 bytes into the third chunk)
C2_ExampleThreeChunks ==
    \A r \in Requests :
        (rq[r].pc = "body" /\ rq[r].from_bytes = 1048500 /\ rq[r].until_bytes = 2097200)
            => /\ rq[r].plan.offset = 0
               /\ rq[r].plan.first_part_cut = 1048500
               /\ rq[r].plan.part_count = 3

C2_Witness ==
    \E r \in Requests :
        /\ rq[r].pc = "body"
        /\ rq[r].from_bytes = 1048500 /\ rq[r].until_bytes = 2097200
        /\ rq[r].plan.part_count = 3

\* C3 (as claimed): every satisfiable ranged GET /dl is answered 206 with
\* Content-Length until - from + 1 and a body that is byte for byte
\* source[from..until]
C3_RangedBodyExact ==
    \A r \in Requests :
        (Streamed(r) /\ rq[r].range_header # NoRange) =>
            /\ rq[r].status_code = 206
            /\ rq[r].content_length = rq[r].until_bytes - rq[r].from_bytes + 1
            /\ BodyIsSlice(rq[r].body, rq[r].from_bytes, rq[r].until_bytes)

----------------------------------------------------------------------------
(* SpecStream: concurrent /dl requests, upstream failures, disconnecting   *)
(* clients, and media of the dump channel being replaced upstream          *)

\* a text that is no serialised coordinate, and a structure without msg_id
BadToken == <<"x", "y">>
ChatOnlyToken == Reverse(dump_chat_id)

StreamTokens == {Token(1), ChatOnlyToken, BadToken}

\* a window across a chunk boundary, and an unsatisfiable window
StreamHeaders == {RangeFromTo(MiB - 100, MiB + 50), RangeFromTo(5, 2)}

NextStream ==
    \/ \E r \in Requests, t \in StreamTokens, h \in StreamHeaders : StreamRequest(r, t, h)
    \/ \E r \in Requests : StreamDecoded(r)
    \/ \E r \in Requests : StreamGotMessage(r)
    \/ \E r \in Requests : StreamResolved(r)
    \/ \E r \in Requests : YieldStart(r)
    \/ \E r \in Requests : YieldChunk(r)
    \/ \E r \in Requests : YieldEnd(r)
    \/ \E r \in Requests : YieldFail(r)
    \/ \E r \in Requests : ClientDisconnect(r)
    \/ \E obj \in {ObjC, NoFile} : EditMessage(1, obj)

SpecStream == Init /\ [][NextStream]_vars

----------------------------------------------------------------------------
(* Claims on streaming *)

\* the requests that hold a unit of the load of session c
Holders(c) == {r \in Requests : rq[r].pc = "body" /\ rq[r].started /\ rq[r].index = c}

\* C8: once the client has disconnected while the body was being streamed, no
\* further chunk is read upstream for the request, and the load counter of the
\* request's session no longer counts the request
C8_DisconnectStopsAndReleases ==
    [][\A r \in Requests :
          /\ rq[r].pc = "closed" => rq'[r] = rq[r]
          /\ rq'[r].pc = "closed" =>
                work_loads'[rq'[r].index]
                    = Cardinality({q \in Requests : /\ rq'[q].pc = "body"
                                                    /\ rq'[q].started
                                                    /\ rq'[q].index = rq'[r].index})]_vars

C8_Witness ==
    \E r \in Requests :
        /\ rq[r].pc = "closed" /\ rq[r].started
        /\ 0 < rq[r].current_part /\ rq[r].current_part < rq[r].plan.part_count
        /\ work_loads[rq[r].index] = Cardinality(Holders(rq[r].index))

\* the request got a response body (a StreamingResponse was returned)
Served(r) == rq[r].pc \in {"body", "done", "aborted", "closed"}

\* C9 (as claimed): a request whose token was not produced by encode_string is
\* never served, also when the token decodes to the coordinate of an existing
\* object: it fails with InvalidHash
C9_ForgedTokenRejected ==
    \A r \in Requests : (rq[r].token \notin issued) => ~Served(r)

\* C10: a request whose resolved object's first 6 identifier characters differ
\* from the fingerprint it is checked against fails with InvalidHash, whatever
\* its Range header, and no chunk is ever read for it
C10_MismatchRejectedFirst ==
    [][\A r \in Requests :
          /\ (/\ rq[r].pc = "get_file_properties"
              /\ rq'[r].pc # "get_file_properties"
              /\ get_file_properties(rq[r].chat_id, rq[r].id).present
              /\ SubSeq(get_file_properties(rq[r].chat_id, rq[r].id).unique_id, 1, 6)
                    # rq[r].secure_hash)
             => /\ rq'[r].pc = "failed" /\ rq'[r].error = "InvalidHash"
                /\ rq'[r].current_part = 0 /\ rq'[r].body = <<>> /\ ~rq'[r].started
          /\ rq[r].error = "InvalidHash" => rq'[r] = rq[r]]_vars

C10_Witness ==
    \E r \in Requests :
        /\ rq[r].error = "InvalidHash"
        /\ rq[r].range_header = RangeFromTo(5, 2)
        /\ rq[r].current_part = 0 /\ ~rq[r].started

----------------------------------------------------------------------------
(* Upload events: file_to_link_handler *)

\* the names bound at module level of file_to_link.py (imports, assignments,
\* functions)
ModuleGlobals ==
    {"filters", "Client", "enums", "Message", "InlineKeyboardButton",
     "InlineKeyboardMarkup", "FloodWait", "Telegram", "encode_string", "Database",
     "multi_clients", "work_loads", "LOGGER", "datetime", "timedelta", "asleep",
     "re", "urllib", "hashlib", "db", "temp_cache", "sanitize_filename",
     "calculate_file_hash", "clean_expired_cache", "file_to_link_handler",
     "link_command_handler", "get_readable_size"}

\* clean_expired_cache(): its loop header reads the global file_cache; the call
\* raises NameError when the module binds no such name, and otherwise sweeps
\* file_cache (never temp_cache)
clean_expired_cache == IF "file_cache" \in ModuleGlobals THEN "swept" ELSE "NameError"

Users == {1, 2}
Hashes == {"h1", "h2"}

\* the records of all shards, in shard order
RECURSIVE AllRecordsFrom(_)
AllRecordsFrom(i) ==
    IF i > Len(shards) THEN <<>> ELSE shards[i] \o AllRecordsFrom(i + 1)

AllRecords == AllRecordsFrom(1)

\* "if not Telegram.FILE_TO_LINK_DUMP" answered as if the dump were configured
NotConfiguredNever(dump_id) == FALSE

\* "if not Telegram.FILE_TO_LINK_DUMP": the setting is 0 when it is not given
NotConfigured(dump_id) == dump_id = 0

\* a private message with a document or video arrives: lines 103-136 run
\* without suspension up to the handler's first reply; message.id is the
\* handler's number
UploadEvent(h, user_id, file_hash, is_video) ==
    /\ up[h].pc = "idle"
    /\ \A g \in Uploads : g < h => up[g].pc # "idle"
    /\ up' = [up EXCEPT ![h] =
                [pc |-> IF NotConfigured(Telegram.FILE_TO_LINK_DUMP)
                        THEN "not_configured_reply"
                        ELSE IF clean_expired_cache = "NameError" THEN "error_reply"
                        ELSE IF ~is_video THEN "not_video_reply"
                        ELSE "progress_reply",
                 user_id |-> user_id, file_hash |-> file_hash, is_video |-> is_video,
                 after_all |-> \A g \in Uploads : g < h => up[g].pc = "done"]]
    /\ UNCHANGED <<work_loads, class_cache, dump, issued, Telegram, san, shards, temp_cache, lk, mg, rq>>

\* the handler caught the exception (line 230) and its reply_text (line 232)
\* returns: the handler is over
UploadErrorReplied(h) ==
    /\ up[h].pc = "error_reply"
    /\ up' = [up EXCEPT ![h] = [@ EXCEPT !.pc = "done"]]
    /\ UNCHANGED <<work_loads, class_cache, dump, issued, Telegram, san, shards, temp_cache, lk, mg, rq>>

\* the reply "not configured" (lines 106-110) returns and the handler returns
\* (line 111)
UploadNotConfiguredReplied(h) ==
    /\ up[h].pc = "not_configured_reply"
    /\ up' = [up EXCEPT ![h] = [@ EXCEPT !.pc = "done"]]
    /\ UNCHANGED <<work_loads, class_cache, dump, issued, Telegram, san, shards, temp_cache, lk, mg, rq>>

NextUpload ==
    \/ \E h \in Uploads, u \in Users, fh \in Hashes, v \in BOOLEAN : UploadEvent(h, u, fh, v)
    \/ \E h \in Uploads : UploadErrorReplied(h)

SpecUpload == Init /\ [][NextUpload]_vars

----------------------------------------------------------------------------
(* Claims on uploads *)

RecordsWithHash(fh) == {i \in 1..Len(AllRecords) : AllRecords[i].file_hash = fh}

\* C5 (as claimed): after two video uploads with the same content hash were
\* handled one after the other, the registry holds exactly one record with that
\* hash, its access count was incremented by the second upload, and the pending
\* association of the second upload points to that record
C5_SecondUploadReusesRecord ==
    \A g \in Uploads, h \in Uploads :
        (/\ g < h
         /\ up[g].pc = "done" /\ up[h].pc = "done" /\ up[h].after_all
         /\ up[g].is_video /\ up[h].is_video
         /\ up[g].file_hash = up[h].file_hash)
        => /\ Cardinality(RecordsWithHash(up[h].file_hash)) = 1
           /\ \A i \in RecordsWithHash(up[h].file_hash) :
                 /\ AllRecords[i].access_count >= 1
                 /\ <<up[h].user_id, h>> \in DOMAIN temp_cache
                 /\ temp_cache[<<up[h].user_id, h>>] = AllRecords[i]._id

----------------------------------------------------------------------------
(* SpecCodec: /dl requests presenting the tokens that link_command_handler *)
(* computes for coordinates as file_to_link_handler stores them            *)

\* channel ids (supergroups and channels carry the -100 prefix) and message ids
ChannelIds == {FILE_TO_LINK_DUMP, 0 - 1001, 0 - 10010, 0 - 100100, 0 - 1009999,
               0 - 100123456}
MsgIds == {1, 2, 9, 10, 100, 907, 1234}

\* file_data["dump_chat_id"] of a record stored for channel c (line 191)
StoredChatId(c) == StripMinus100(IntToStr(c))

\* the token of lines 301-304 for a record with coordinate (c, m)
LinkToken(c, m) == encode_string(StoredChatId(c), m)

NextCodec ==
    \/ \E c \in ChannelIds, m \in MsgIds : StreamRequest(1, LinkToken(c, m), NoRange)
    \/ StreamDecoded(1)
    \/ StreamGotMessage(1)
    \/ StreamResolved(1)

SpecCodec == Init /\ [][NextCodec]_vars

\* C11: the token built from the coordinate a record is stored with (container
\* id with the "-100" prefix stripped, object id) decodes in stream_handler to
\* exactly the container id and the object id the record was stored for
C11_CoordinateRoundTrip ==
    \A r \in Requests : \A c \in ChannelIds, m \in MsgIds :
        (rq[r].token = LinkToken(c, m) /\ rq[r].pc \notin {"idle", "decode_string"})
            => /\ rq[r].error \notin {"MalformedToken", "MissingId"}
               /\ rq[r].chat_id = c
               /\ rq[r].id = m

C11_Witness ==
    \E r \in Requests :
        /\ rq[r].token = LinkToken(FILE_TO_LINK_DUMP, 1)
        /\ rq[r].pc = "body"
        /\ rq[r].chat_id = FILE_TO_LINK_DUMP /\ rq[r].id = 1

----------------------------------------------------------------------------
(* Claims on the errors of /dl *)

\* the status the client sees: an exception that is no HTTPException leaves
\* the handler and is answered by the server with 500
ResponseStatus(r) ==
    IF rq[r].pc = "failed" /\ rq[r].status_code = 0 THEN 500 ELSE rq[r].status_code

\* C12 (as claimed): a /dl request whose token does not decode, or decodes to
\* a structure without msg_id, is answered with 400, and neither an upstream
\* resolve nor a chunk read is done for it
C12_BadTokenIs400 ==
    \A r \in Requests :
        (/\ rq[r].pc \notin {"idle", "decode_string"}
         /\ ~decode_string(rq[r].token).ok \/ ~decode_string(rq[r].token).has_msg_id)
        => /\ rq[r].pc = "failed"
           /\ ResponseStatus(r) = 400
           /\ rq[r].index = 0 /\ ~rq[r].started /\ rq[r].current_part = 0

\* C13 (as claimed): a /dl request whose coordinate resolves to a message that
\* carries neither video nor document is answered with 404
C13_GoneIs404 ==
    [][\A r \in Requests :
          (/\ rq[r].pc = "get_messages"
           /\ rq'[r].pc # "get_messages"
           /\ ~GetMedia(rq[r].chat_id, rq[r].id).present)
          => rq'[r].pc = "failed" /\ rq'[r].status_code = 404]_vars

----------------------------------------------------------------------------
(* SpecParse: parse_range_header applied, by one /dl request, to Range     *)
(* header texts and object sizes                                           *)

ParseSizes == {0, 1, 500, 1000}
ParseVals == {0, 499, 500, 900, 999, 1000, 1500}

\* header texts that are not of the form bytes=<from>-<until>: "0-499",
\* "500-", "bytes=0-1,2-3", "bytes=-500", "bytes=x-9", "bytes=0-x",
\* "items=0-9", "bytes=", "bytes=0-1-2", "bytes=0-9bytes="
OtherHeaders ==
    {<<"0", "-", "4", "9", "9">>,
     <<"5", "0", "0", "-">>,
     BytesEq \o <<"0", "-", "1", ",", "2", "-", "3">>,
     BytesEq \o <<"-", "5", "0", "0">>,
     BytesEq \o <<"x", "-", "9">>,
     BytesEq \o <<"0", "-", "x">>,
     <<"i", "t", "e", "m", "s", "=", "0", "-", "9">>,
     BytesEq,
     BytesEq \o <<"0", "-", "1", "-", "2">>,
     BytesEq \o <<"0", "-", "9">> \o BytesEq}

ParseHeaders ==
    {NoRange} \cup {RangeFrom(a) : a \in ParseVals}
    \cup {RangeFromTo(a, b) : a \in ParseVals, b \in ParseVals}
    \cup OtherHeaders

InitParse == \E size \in ParseSizes : InitWith(<<Obj(UidA, size)>>)

NextParse ==
    \/ \E h \in ParseHeaders : StreamRequest(1, Token(1), h)
    \/ StreamDecoded(1)
    \/ StreamGotMessage(1)
    \/ StreamResolved(1)

SpecParse == InitParse /\ [][NextParse]_vars

----------------------------------------------------------------------------
(* Claims on range negotiation *)

\* parse_range_header has returned or raised for the request
Negotiated(r) ==
    rq[r].pc = "body" \/ rq[r].error \in {"InvalidRange", "RangeNotSatisfiable"}

\* the request got the window (a, b)
GotWindow(r, a, b) ==
    rq[r].pc = "body" /\ rq[r].from_bytes = a /\ rq[r].until_bytes = b

\* the request was refused with 416 and Content-Range: bytes */size
Got416(r, size) ==
    /\ rq[r].pc = "failed" /\ rq[r].error = "RangeNotSatisfiable"
    /\ rq[r].status_code = 416
    /\ rq[r].content_range = <<"b", "y", "t", "e", "s", " ", "*", "/">> \o IntToStr(size)

\* C14: the window is (0, S-1) when the Range header is absent, (from, S-1)
\* when until is omitted, and (from, until) as written otherwise; with S = 1000
\* bytes=0-499 gives (0, 499), bytes=500- gives (500, 999) and bytes=900-1500
\* fails with RangeNotSatisfiable
C14_WindowAsWritten ==
    \A r \in Requests :
        Negotiated(r) =>
            LET size == dump[1].file_size IN
            /\ rq[r].range_header = NoRange => GotWindow(r, 0, size - 1)
            /\ \A a \in ParseVals :
                  (rq[r].range_header = RangeFrom(a) /\ a <= size - 1)
                      => GotWindow(r, a, size - 1)
            /\ \A a \in ParseVals, b \in ParseVals :
                  (rq[r].range_header = RangeFromTo(a, b) /\ a <= b /\ b <= size - 1)
                      => GotWindow(r, a, b)
            /\ size = 1000 =>
                  /\ rq[r].range_header = RangeFromTo(0, 499) => GotWindow(r, 0, 499)
                  /\ rq[r].range_header = RangeFrom(500) => GotWindow(r, 500, 999)
                  /\ rq[r].range_header = RangeFromTo(900, 1500)
                        => rq[r].error = "RangeNotSatisfiable"

C14_Witness ==
    \E r \in Requests :
        /\ dump[1].file_size = 1000
        /\ rq[r].range_header = BytesEq \o <<"9", "0", "0", "-", "1", "5", "0", "0">>
        /\ rq[r].pc = "failed" /\ rq[r].error = "RangeNotSatisfiable"

\* C15: a header bytes=<from>-<until> or bytes=<from>- is refused with 416 and
\* Content-Range: bytes */S exactly when until > S-1, from < 0 or until < from
\* (until being S-1 when omitted), and yields its window in all other cases
C15_UnsatisfiableIs416 ==
    \A r \in Requests :
        Negotiated(r) =>
            LET size == dump[1].file_size IN
            /\ \A a \in ParseVals, b \in ParseVals :
                  rq[r].range_header = RangeFromTo(a, b) =>
                      IF (b > size - 1) \/ (a < 0) \/ (b < a)
                      THEN Got416(r, size) ELSE GotWindow(r, a, b)
            /\ \A a \in ParseVals :
                  rq[r].range_header = RangeFrom(a) =>
                      IF (size - 1 > size - 1) \/ (a < 0) \/ (size - 1 < a)
                      THEN Got416(r, size) ELSE GotWindow(r, a, size - 1)

C15_Witness ==
    \E r \in Requests :
        /\ dump[1].file_size = 500
        /\ rq[r].range_header = RangeFromTo(499, 500)
        /\ rq[r].status_code = 416
        /\ rq[r].content_range = <<"b", "y", "t", "e", "s", " ", "*", "/", "5", "0", "0">>

\* the text is bytes=<from>-<until> with <from> a number and <until> a number
\* or empty
SingleRangeForm(h) ==
    /\ Len(h) > 6 /\ SubSeq(h, 1, 6) = BytesEq
    /\ \E p \in 7..Len(h) :
          /\ h[p] = "-"
          /\ AllDigits(SubSeq(h, 7, p - 1))
          /\ p = Len(h) \/ AllDigits(SubSeq(h, p + 1, Len(h)))

\* C16 (as claimed): every non-empty Range header that is not of the form
\* bytes=<from>-<until> (a multi-range list, a missing <from>, a non-numeric
\* bound, a header without the bytes= prefix) is refused with 400 and yields
\* no window
C16_OtherFormsAre400 ==
    \A r \in Requests :
        (Negotiated(r) /\ rq[r].range_header # NoRange
                       /\ ~SingleRangeForm(rq[r].range_header))
            => /\ rq[r].pc = "failed" /\ rq[r].error = "InvalidRange"
               /\ rq[r].status_code = 400

----------------------------------------------------------------------------
(* /link commands: link_command_handler *)

\* a private /link message arrives from user_id, replying to message reply_to
\* (0: not a reply): lines 244-280 run without suspension up to the first
\* reply or database read
LinkCommand(l, user_id, reply_to) ==
    /\ lk[l].pc = "idle"
    /\ \A k \in Links : k < l => lk[k].pc # "idle"
    /\ lk' = [lk EXCEPT ![l] =
                [pc |-> IF NotConfigured(Telegram.FILE_TO_LINK_DUMP)
                        THEN "not_configured_reply"
                        ELSE IF clean_expired_cache = "NameError" THEN "error_reply"
                        ELSE IF reply_to = 0 THEN "usage_reply"
                        ELSE IF <<user_id, reply_to>> \notin DOMAIN temp_cache
                        THEN "not_found_reply"
                        ELSE "find_one",
                 user_id |-> user_id,
                 reply_to |-> reply_to,
                 after_upload |-> /\ reply_to \in Uploads
                                  /\ up[reply_to].pc = "done"
                                  /\ up[reply_to].is_video
                                  /\ up[reply_to].user_id = user_id,
                 error |-> IF /\ ~NotConfigured(Telegram.FILE_TO_LINK_DUMP)
                              /\ clean_expired_cache = "NameError"
                           THEN "NameError" ELSE "",
                 reply |-> ""]]
    /\ UNCHANGED <<work_loads, class_cache, dump, issued, Telegram, san, shards, temp_cache, mg, up, rq>>

\* the handler caught the exception (line 341) and its reply_text (line 343)
\* returns: the handler is over
LinkErrorReplied(l) ==
    /\ lk[l].pc = "error_reply"
    /\ lk' = [lk EXCEPT ![l] = [@ EXCEPT !.pc = "done", !.reply = "error"]]
    /\ UNCHANGED <<work_loads, class_cache, dump, issued, Telegram, san, shards, temp_cache, mg, up, rq>>

----------------------------------------------------------------------------
(* SpecLink: video uploads and /link commands replying to them *)

NextLink ==
    \/ \E h \in Uploads, u \in Users : UploadEvent(h, u, "h1", TRUE)
    \/ \E h \in Uploads : UploadErrorReplied(h)
    \/ \E l \in Links, u \in Users, m \in {0, 1} : LinkCommand(l, u, m)
    \/ \E l \in Links : LinkErrorReplied(l)

SpecLink == Init /\ [][NextLink]_vars

\* C17 (as claimed): the sweep that runs at the start of each handler returns,
\* having evicted the associations older than the TTL, so that the handler
\* goes on to put or to look up its association
C17_SweepEvictsExpired ==
    /\ \A h \in Uploads : up[h].pc # "error_reply"
    /\ \A l \in Links : lk[l].error # "NameError"

\* C18 (as claimed): a handled video upload has left its record in the
\* registry and the association (user id, message id) -> registry id in the
\* pending cache, and a /link of the same user replying to that message
\* afterwards is answered with the links
C18_UploadThenLinkIssued ==
    /\ \A h \in Uploads :
          (up[h].pc = "done" /\ up[h].is_video)
              => /\ <<up[h].user_id, h>> \in DOMAIN temp_cache
                 /\ \E k \in 1..Len(AllRecords) :
                       /\ AllRecords[k]._id = temp_cache[<<up[h].user_id, h>>]
                       /\ AllRecords[k].file_hash = up[h].file_hash
    /\ \A l \in Links :
          (lk[l].pc = "done" /\ lk[l].after_upload) => lk[l].reply = "links"

----------------------------------------------------------------------------
(* Management API: verify_admin, get_file_stats, list_files, delete_file *)

ADMIN_USERNAME == "admin"
ADMIN_PASSWORD == "secret"

\* a check that lets every caller in
verify_admin_anyone(username, password) == TRUE

\* verify_admin: both compare_digest results must be true
verify_admin(username, password) ==
    LET correct_username == (username = ADMIN_USERNAME)
        correct_password == (password = ADMIN_PASSWORD)
    IN  correct_username /\ correct_password

\* a document of the file_to_link collection
FileRecordAt(id, user_id, msg_id, file_hash, access_count, uploaded_at, original_name) ==
    [_id |-> id, user_id |-> user_id, dump_chat_id |-> dump_chat_id,
     dump_msg_id |-> msg_id, file_hash |-> file_hash, access_count |-> access_count,
     uploaded_at |-> uploaded_at, original_name |-> original_name]

\* a document uploaded at time id under the name "a"
FileRecord(id, user_id, msg_id, file_hash, access_count) ==
    FileRecordAt(id, user_id, msg_id, file_hash, access_count, id, <<"a">>)

\* str.lower on the letters used in names
Lower(c) == IF c = "A" THEN "a" ELSE IF c = "B" THEN "b" ELSE c

\* {"$regex": search, "$options": "i"} for a search text of letters: the
\* name holds the text somewhere, case ignored
Matches(search, name) ==
    \E p \in 1..(Len(name) - Len(search) + 1) :
        \A k \in 1..Len(search) : Lower(name[p + k - 1]) = Lower(search[k])

\* find(filter_dict).to_list() on one collection; filter_dict is empty when
\* search is
FindIn(coll, search) ==
    IF search = <<>> THEN coll
    ELSE SelectSeq(coll, LAMBDA rec : Matches(search, rec.original_name))

\* a sort that leaves the list as the shards returned it
SortNot(files) == files

RECURSIVE InsertDesc(_, _)
\* rec put into a list sorted newest first, behind the elements of equal time
InsertDesc(sorted, rec) ==
    IF sorted = <<>> THEN <<rec>>
    ELSE IF Head(sorted).uploaded_at >= rec.uploaded_at
    THEN <<Head(sorted)>> \o InsertDesc(Tail(sorted), rec)
    ELSE <<rec>> \o sorted

RECURSIVE SortFrom(_, _)
SortFrom(sorted, rest) ==
    IF rest = <<>> THEN sorted ELSE SortFrom(InsertDesc(sorted, Head(rest)), Tail(rest))

\* all_files.sort(key=uploaded_at, reverse=True): stable, newest first
SortDesc(files) == SortFrom(<<>>, files)

\* all_files[start_idx:end_idx] for 0 <= start_idx <= end_idx
Paginate(files, page, page_size) ==
    LET start_idx == (page - 1) * page_size
        end_idx == start_idx + page_size
    IN  SubSeq(files, start_idx + 1, Min(end_idx, Len(files)))

\* the documents of a registry
Recs(registry) ==
    UNION {{registry[i][k] : k \in 1..Len(registry[i])} : i \in 1..Len(registry)}

\* a delete that empties the collection it finds the document in
DeleteOneDropsAll(coll, id) ==
    IF \E k \in 1..Len(coll) : coll[k]._id = id THEN <<>> ELSE coll

\* delete_one({"_id": id}) on one collection
DeleteOneFrom(coll, id) ==
    IF \E k \in 1..Len(coll) : coll[k]._id = id
    THEN LET k == CHOOSE k \in 1..Len(coll) :
                      coll[k]._id = id /\ \A j \in 1..(k - 1) : coll[j]._id # id
         IN  SubSeq(coll, 1, k - 1) \o SubSeq(coll, k + 1, Len(coll))
    ELSE coll

\* a request to /api/files/stats, /api/files or DELETE /api/files/{file_id}
\* arrives: the verify_admin dependency runs, then the handler up to its first
\* await
ManageCall(g, op, username, password, file_id, page, page_size, search) ==
    /\ mg[g].pc = "idle"
    /\ \A f \in Manage : f < g => mg[f].pc # "idle"
    /\ mg' = [mg EXCEPT ![g] =
                [pc |-> IF ~verify_admin(username, password) THEN "failed"
                        ELSE IF op = "stats" THEN "get_file_to_link_stats"
                        ELSE IF op = "list" THEN "find"
                        ELSE "delete_one",
                 op |-> op, username |-> username, password |-> password,
                 file_id |-> file_id,
                 page |-> page, page_size |-> page_size, search |-> search,
                 i |-> IF verify_admin(username, password) THEN 1 ELSE 0,
                 all_files |-> <<>>, files |-> <<>>, total_count |-> 0 - 1,
                 status_code |-> IF verify_admin(username, password) THEN 0 ELSE 401]]
    /\ UNCHANGED <<work_loads, class_cache, dump, issued, Telegram, san, shards, temp_cache, lk, up, rq>>

\* the same with list_files' defaults page = 1, page_size = 20, search = None
ManageRequest(g, op, username, password, file_id) ==
    ManageCall(g, op, username, password, file_id, 1, 20, <<>>)

\* get_file_stats resumes from db.get_file_to_link_stats() and enters its loop
StatsRead(g) ==
    /\ mg[g].pc = "get_file_to_link_stats"
    /\ mg' = [mg EXCEPT ![g] = [@ EXCEPT !.pc = "find"]]
    /\ UNCHANGED <<work_loads, class_cache, dump, issued, Telegram, san, shards, temp_cache, lk, up, rq>>

\* get_file_stats / list_files: find(...).to_list() on shard i returns
FindShard(g) ==
    /\ mg[g].pc = "find"
    /\ LET all_files == mg[g].all_files \o FindIn(shards[mg[g].i], mg[g].search)
           last == mg[g].i >= Len(shards)
           listed == last /\ mg[g].op = "list"
       IN  mg' = [mg EXCEPT ![g] =
                [@ EXCEPT !.all_files = all_files,
                          !.i = @ + 1,
                          !.pc = IF last THEN "done" ELSE "find",
                          !.files = IF listed
                                    THEN Paginate(SortDesc(all_files), mg[g].page,
                                                  mg[g].page_size)
                                    ELSE <<>>,
                          !.total_count = IF listed THEN Len(all_files) ELSE 0 - 1,
                          !.status_code = IF last THEN 200 ELSE 0]]
    /\ UNCHANGED <<work_loads, class_cache, dump, issued, Telegram, san, shards, temp_cache, lk, up, rq>>

\* delete_file: delete_one on shard i returns; the HTTPException 404 raised
\* after the loop is caught by the handler's own except Exception and
\* re-raised as 500
DeleteShard(g) ==
    /\ mg[g].pc = "delete_one"
    /\ LET i == mg[g].i
           result == DeleteOneFrom(shards[i], mg[g].file_id)
           deleted == result # shards[i]
       IN  /\ shards' = [shards EXCEPT ![i] = result]
           /\ mg' = [mg EXCEPT ![g] =
                       IF deleted THEN [@ EXCEPT !.pc = "done", !.status_code = 200]
                       ELSE IF i < Len(shards) THEN [@ EXCEPT !.i = i + 1]
                       ELSE [@ EXCEPT !.pc = "failed", !.status_code = 500]]
    /\ UNCHANGED <<work_loads, class_cache, dump, issued, Telegram, san, temp_cache, lk, up, rq>>

----------------------------------------------------------------------------
(* SpecManage: a registry holding two records, with uploads, /link         *)
(* commands, a /dl request and management requests                         *)

Record1 == FileRecord(1, 1, 1, "h1", 0)
Record2 == FileRecord(2, 2, 2, "h2", 3)

Registries == {<<<<Record1>>, <<Record2>>>>, <<<<>>, <<Record2, Record1>>>>}

Credentials == {<<ADMIN_USERNAME, ADMIN_PASSWORD>>, <<ADMIN_USERNAME, "guess">>}

InitManage == \E registry \in Registries : InitState(<<ObjB, ObjC>>, registry)

NextManage ==
    \/ UploadEvent(1, 1, "h1", TRUE)
    \/ UploadErrorReplied(1)
    \/ LinkCommand(1, 1, 1)
    \/ LinkErrorReplied(1)
    \/ StreamRequest(1, Token(1), NoRange)
    \/ StreamDecoded(1)
    \/ StreamGotMessage(1)
    \/ StreamResolved(1)
    \/ YieldStart(1)
    \/ YieldChunk(1)
    \/ YieldEnd(1)
    \/ \E g \in Manage, op \in {"stats", "list"} :
          ManageRequest(g, op, ADMIN_USERNAME, ADMIN_PASSWORD, 0)
    \/ \E g \in Manage, c \in Credentials, id \in {1, 9} :
          ManageRequest(g, "delete", c[1], c[2], id)
    \/ \E g \in Manage : StatsRead(g)
    \/ \E g \in Manage : FindShard(g)
    \/ \E g \in Manage : DeleteShard(g)

SpecManage == InitManage /\ [][NextManage]_vars

\* C20: every step leaves each record of the registry as it is except for an
\* access count that does not decrease and is not negative, or removes it, and
\* then the step is the delete_one of a delete request that carried the
\* configured admin username and password and named the record
C20_RecordsImmutable ==
    [][\A rec \in Recs(shards) :
          \/ \E new \in Recs(shards') :
                /\ new._id = rec._id
                /\ [new EXCEPT !.access_count = rec.access_count] = rec
                /\ new.access_count >= rec.access_count
                /\ rec.access_count >= 0
          \/ /\ \A new \in Recs(shards') : new._id # rec._id
             /\ \E g \in Manage :
                   /\ mg[g].pc = "delete_one" /\ mg'[g].pc = "done"
                   /\ mg[g].file_id = rec._id
                   /\ mg[g].username = ADMIN_USERNAME
                   /\ mg[g].password = ADMIN_PASSWORD]_vars

C20_Witness ==
    /\ Record1 \notin Recs(shards) /\ Record2 \in Recs(shards)
    /\ \E g \in Manage, f \in Manage :
          /\ mg[g].op = "delete" /\ mg[g].file_id = 1
          /\ mg[g].pc = "done" /\ mg[g].status_code = 200
          /\ mg[f].op = "delete" /\ mg[f].file_id = 1 /\ mg[f].password # ADMIN_PASSWORD
          /\ mg[f].pc = "failed" /\ mg[f].status_code = 401
    /\ up[1].pc = "done" /\ lk[1].pc = "done" /\ rq[1].pc = "done"

----------------------------------------------------------------------------
(* Claims on the management API *)

\* shard i holds a document with this id
Holds(registry, i, id) == \E k \in 1..Len(registry[i]) : registry[i][k]._id = id

\* C21: delete_file visits the shards 1..K in order; at the first shard that
\* holds the id it removes exactly that record, leaves every other record of
\* every shard as it is and reports success; a shard that does not hold the id
\* is left as it is, and after the last such shard the request ends without
\* reporting success
C21_DeleteFirstMatchOnly ==
    [][\A g \in Manage :
          /\ (mg[g].pc = "idle" /\ mg'[g].pc = "delete_one") => mg'[g].i = 1
          /\ (mg[g].pc = "delete_one" /\ mg'[g] # mg[g]) =>
                LET i == mg[g].i
                    id == mg[g].file_id
                IN  IF Holds(shards, i, id)
                    THEN /\ mg'[g].pc = "done" /\ mg'[g].status_code = 200
                         /\ \A j \in 1..Len(shards) : j # i => shards'[j] = shards[j]
                         /\ Len(shards'[i]) = Len(shards[i]) - 1
                         /\ ~Holds(shards', i, id)
                         /\ Recs(shards') = {rec \in Recs(shards) : rec._id # id}
                    ELSE /\ shards' = shards
                         /\ IF i < Len(shards)
                            THEN mg'[g].pc = "delete_one" /\ mg'[g].i = i + 1
                            ELSE mg'[g].pc = "failed" /\ mg'[g].status_code # 200]_vars

C21_Witness ==
    /\ Len(shards) = 2
    /\ Record1 \notin Recs(shards) /\ Record2 \in Recs(shards)
    /\ \E g \in Manage, f \in Manage :
          /\ mg[g].op = "delete" /\ mg[g].file_id = 1 /\ mg[g].i = 2
          /\ mg[g].pc = "done" /\ mg[g].status_code = 200
          /\ mg[f].op = "delete" /\ mg[f].file_id = 9 /\ mg[f].i = 2
          /\ mg[f].pc = "failed"

----------------------------------------------------------------------------
(* SpecList: list_files over registries of up to four records in two       *)
(* shards, two of them uploaded at the same time                           *)

List1 == FileRecordAt(1, 1, 1, "h1", 0, 5, <<"A", "b">>)
List2 == FileRecordAt(2, 1, 2, "h2", 0, 7, <<"b">>)
List3 == FileRecordAt(3, 2, 3, "h3", 0, 5, <<"b", "a">>)
List4 == FileRecordAt(4, 2, 4, "h4", 0, 9, <<"a">>)

ListRegistries == {<<<<List1, List2>>, <<List3, List4>>>>,
                   <<<<List1, List2, List3, List4>>>>,
                   <<<<List4>>, <<List3, List2, List1>>>>,
                   <<<<>>, <<List2>>>>}

Pages == {1, 2, 3}
PageSizes == {1, 2}
Searches == {<<>>, <<"B">>}

InitList == \E registry \in ListRegistries : InitState(<<ObjA>>, registry)

NextList ==
    \/ \E g \in Manage, page \in Pages, page_size \in PageSizes, search \in Searches :
          ManageCall(g, "list", ADMIN_USERNAME, ADMIN_PASSWORD, 0, page, page_size, search)
    \/ \E g \in Manage : FindShard(g)

SpecList == InitList /\ [][NextList]_vars

\* the records of the registry that match the filter
Matching(search) ==
    {rec \in Recs(shards) : search = <<>> \/ Matches(search, rec.original_name)}

\* the list request has been answered
Listed(g) == mg[g].op = "list" /\ mg[g].pc = "done"

\* the elements of a list
Elems(files) == {files[k] : k \in 1..Len(files)}

\* C22: list_files answers with total_count the number of matching records of
\* all shards and with the records at positions [(page-1)*page_size,
\* page*page_size) of the matching records ordered newest first; pages are
\* pairwise disjoint, none is longer than page_size, and pages 1 and 2
\* together are the whole ordered list when it has at most 2*page_size records
C22_ListPageIsSlice ==
    /\ \A g \in Manage :
          Listed(g) =>
              LET start == (mg[g].page - 1) * mg[g].page_size
                  all == Matching(mg[g].search)
                  total == Cardinality(all)
              IN  /\ mg[g].total_count = total
                  /\ Len(mg[g].files) = Max(0, Min(mg[g].page_size, total - start))
                  /\ \A k \in 1..Len(mg[g].files) :
                        LET rec == mg[g].files[k] IN
                        /\ rec \in all
                        /\ Cardinality({m \in all : m.uploaded_at > rec.uploaded_at})
                              < start + k
                        /\ Cardinality({m \in all : m.uploaded_at >= rec.uploaded_at})
                              >= start + k
                        /\ \A j \in 1..(k - 1) : mg[g].files[j] # rec
    /\ \A g \in Manage, f \in Manage :
          (/\ Listed(g) /\ Listed(f)
           /\ mg[g].search = mg[f].search /\ mg[g].page_size = mg[f].page_size
           /\ mg[g].page < mg[f].page)
          => /\ Elems(mg[g].files) \cap Elems(mg[f].files) = {}
             /\ (mg[g].page = 1 /\ mg[f].page = 2
                    /\ mg[g].total_count <= 2 * mg[g].page_size)
                => LET whole == mg[g].files \o mg[f].files IN
                   /\ Elems(whole) = Matching(mg[g].search)
                   /\ Len(whole) = mg[g].total_count
                   /\ \A k \in 1..(Len(whole) - 1) :
                         whole[k].uploaded_at >= whole[k + 1].uploaded_at

C22_Witness ==
    /\ shards = <<<<List1, List2>>, <<List3, List4>>>>
    /\ \E g \in Manage, f \in Manage :
          /\ Listed(g) /\ Listed(f)
          /\ mg[g].search = <<"B">> /\ mg[f].search = <<"B">>
          /\ mg[g].page_size = 2 /\ mg[f].page_size = 2
          /\ mg[g].page = 1 /\ mg[f].page = 2
          /\ mg[g].total_count = 3
          /\ mg[g].files = <<List2, List1>> /\ mg[f].files = <<List3>>

----------------------------------------------------------------------------
(* Claims on the adapter cache and on session selection *)

\* C23: a session that has an adapter keeps that adapter, and every request
\* routed to a session uses the adapter the cache holds for the session: the
\* first request routed to it made it, every later one reuses it
C23_OneAdapterPerSession ==
    [][/\ \A c \in Clients : class_cache[c] # 0 => class_cache'[c] = class_cache[c]
       /\ \A r \in Requests :
             rq'[r].index # 0 =>
                 /\ class_cache'[rq'[r].index] # 0
                 /\ rq'[r].tg_connect = class_cache'[rq'[r].index]]_vars

C23_Witness ==
    \E r \in Requests, q \in Requests :
        /\ r # q
        /\ rq[r].index = 1 /\ rq[q].index = 1
        /\ rq[r].tg_connect = r /\ rq[q].tg_connect = r
        /\ class_cache[1] = r
        /\ rq[r].pc = "body" /\ rq[q].pc = "body"

\* the request has selected its session and has not yet taken a unit of its load
Selected(r) ==
    \/ rq[r].pc = "get_file_properties"
    \/ rq[r].pc = "body" /\ ~rq[r].started

\* C25 (as claimed): the load of the selected session is raised before the
\* request first suspends, so two requests in flight that selected while two
\* sessions shared the minimal load are not routed to the same session
C25_SelectionCounted ==
    /\ \A r \in Requests :
          Selected(r) => work_loads[rq[r].index] >= 1
    /\ \A r \in Requests, q \in Requests :
          (r # q /\ Selected(r) /\ Selected(q)) => rq[r].index # rq[q].index

----------------------------------------------------------------------------
(* Claims on the plan, the window and the response headers *)

\* C26 (as claimed): for every window 0 <= from <= until the plan's offset is
\* a multiple of the chunk size with offset <= from < offset + chunk size, at
\* least one chunk is planned, and the last planned chunk is the one holding
\* byte until: part_count = floor(until / chunk size) - offset / chunk size + 1
C26_PlanCoversWindow ==
    \A r \in Requests :
        (rq[r].pc = "body" /\ 0 <= rq[r].from_bytes
                           /\ rq[r].from_bytes <= rq[r].until_bytes)
        => LET plan == rq[r].plan IN
           /\ plan.offset % chunk_size = 0
           /\ plan.offset <= rq[r].from_bytes
           /\ rq[r].from_bytes < plan.offset + chunk_size
           /\ plan.part_count >= 1
           /\ plan.part_count
                 = (rq[r].until_bytes \div chunk_size) - (plan.offset \div chunk_size) + 1

C28_StatusAndHeaders ==
    \A r \in Requests :
        Served(r) =>
            /\ IF rq[r].range_header # NoRange
               THEN /\ rq[r].status_code = 206
                    /\ rq[r].content_range =
                          <<"b", "y", "t", "e", "s", " ">> \o IntToStr(rq[r].from_bytes)
                              \o <<"-">> \o IntToStr(rq[r].until_bytes)
                              \o <<"/">> \o IntToStr(dump[1].file_size)
               ELSE /\ rq[r].status_code = 200
                    /\ rq[r].content_range = <<>>
            /\ rq[r].content_length = rq[r].until_bytes - rq[r].from_bytes + 1
            /\ rq[r].accept_ranges = "bytes"

C28_Witness ==
    \E r \in Requests :
        /\ rq[r].pc = "done"
        /\ rq[r].range_header = RangeFromTo(1048500, 2097200)
        /\ rq[r].status_code = 206
        /\ rq[r].content_length = 1048701
        /\ rq[r].content_range =
              <<"b", "y", "t", "e", "s", " ", "1", "0", "4", "8", "5", "0", "0", "-",
                "2", "0", "9", "7", "2", "0", "0", "/", "3", "1", "4", "5", "7", "2", "8">>

----------------------------------------------------------------------------
(* Claims on /link and the registry *)

\* C30 (as claimed): a /link replying to a handled video upload of the same
\* user is answered with the links when the upload's record is in some shard
\* and with "not found in database" when the record has been deleted, and no
\* step of a /link handler changes the registry or the pending associations
C30_LinkFollowsRegistry ==
    [][\A l \in Links :
          /\ (lk[l].pc # "done" /\ lk'[l].pc = "done" /\ lk[l].after_upload) =>
                IF \E rec \in Recs(shards) :
                       rec.file_hash = up[lk[l].reply_to].file_hash
                THEN lk'[l].reply = "links"
                ELSE lk'[l].reply = "not_found_in_database"
          /\ lk'[l] # lk[l] => (shards' = shards /\ temp_cache' = temp_cache)]_vars

----------------------------------------------------------------------------
(* Claims on the administrative delete's answers *)

\* C31 (as claimed): an authorised delete request that went through every
\* shard without finding the given id is answered with status 404
C31_DeleteMissingIs404 ==
    \A g \in Manage :
        (/\ mg[g].op = "delete"
         /\ verify_admin(mg[g].username, mg[g].password)
         /\ mg[g].pc = "failed"
         /\ \A i \in 1..Len(shards) : ~Holds(shards, i, mg[g].file_id))
        => mg[g].status_code = 404

----------------------------------------------------------------------------
(* GET /watch/{id}/{name}: the player page *)

\* a client sends GET /watch/{token}/{name}
WatchRequest(r, token) ==
    /\ rq[r].pc = "idle"
    /\ \A q \in Requests : q < r => rq[q].pc # "idle"
    /\ rq' = [rq EXCEPT ![r] = [@ EXCEPT !.pc = "watch_decode_string", !.token = token]]
    /\ UNCHANGED <<work_loads, class_cache, dump, issued, Telegram, san, shards, temp_cache, lk, mg, up>>

\* watch_handler resumes from decode_string inside its try block: whatever is
\* raised there, its own HTTPException(400) included, is caught by
\* "except Exception" and raised again as HTTPException(500)
WatchDecoded(r) ==
    /\ rq[r].pc = "watch_decode_string"
    /\ LET decoded_data == decode_string(rq[r].token) IN
       rq' = [rq EXCEPT ![r] =
                IF ~decoded_data.ok
                THEN [@ EXCEPT !.pc = "watch_failed", !.error = "MalformedToken",
                               !.status_code = 500]
                ELSE IF ~decoded_data.has_msg_id \/ decoded_data.msg_id = 0
                THEN [@ EXCEPT !.pc = "watch_failed", !.error = "MissingId",
                               !.status_code = 500]
                ELSE [@ EXCEPT !.pc = "watch_page", !.status_code = 200]]
    /\ UNCHANGED <<work_loads, class_cache, dump, issued, Telegram, san, shards, temp_cache, lk, mg, up>>

\* SpecWatch: /watch and /dl requests with the same tokens
NextWatch ==
    \/ \E r \in Requests, t \in StreamTokens : WatchRequest(r, t)
    \/ \E r \in Requests : WatchDecoded(r)
    \/ \E r \in Requests, t \in StreamTokens : StreamRequest(r, t, NoRange)
    \/ \E r \in Requests : StreamDecoded(r)
    \/ \E r \in Requests : StreamGotMessage(r)
    \/ \E r \in Requests : StreamResolved(r)

SpecWatch == Init /\ [][NextWatch]_vars

\* C32 (as claimed): a /watch request whose token decodes to a structure
\* without msg_id is answered with status 400 and detail "Missing id", the
\* status an answered /dl request with the same token has
C32_WatchMissingIdIs400 ==
    \A r \in Requests :
        (/\ rq[r].pc \in {"watch_failed", "watch_page"}
         /\ decode_string(rq[r].token).ok
         /\ ~decode_string(rq[r].token).has_msg_id)
        => /\ rq[r].status_code = 400
           /\ rq[r].error = "MissingId"
           /\ \A q \in Requests :
                 (rq[q].pc = "failed" /\ rq[q].token = rq[r].token)
                 => ResponseStatus(q) = rq[r].status_code

----------------------------------------------------------------------------
(* SpecReject: upload events in a deployment without a dump channel and in *)
(* one with it, on a registry that holds records                            *)

InitReject ==
    \E dump_id \in {0, FILE_TO_LINK_DUMP}, registry \in Registries :
        InitConfigured(<<ObjA>>, registry, dump_id)

NextReject ==
    \/ \E h \in Uploads, u \in Users, fh \in Hashes, v \in BOOLEAN : UploadEvent(h, u, fh, v)
    \/ \E h \in Uploads : UploadErrorReplied(h)
    \/ \E h \in Uploads : UploadNotConfiguredReplied(h)

SpecReject == InitReject /\ [][NextReject]_vars

\* C33: every step of an upload handler whose event arrives while no dump
\* channel is configured, or whose file is not a video, leaves the registry
\* shards, the pending-association cache and every session's load counter
\* unchanged; without a dump channel the handler goes to the "not configured"
\* reply and ends there, and no rejected handler gets to the progress reply
C33_RejectedUploadFrame ==
    [][\A h \in Uploads :
          (/\ up'[h] # up[h]
           /\ (Telegram.FILE_TO_LINK_DUMP = 0 \/ ~up'[h].is_video))
          => /\ shards' = shards
             /\ temp_cache' = temp_cache
             /\ work_loads' = work_loads
             /\ up'[h].pc # "progress_reply"
             /\ Telegram.FILE_TO_LINK_DUMP = 0 =>
                    up'[h].pc \in {"not_configured_reply", "done"}]_vars

\* both uploads, a video and a document, were rejected for want of a dump
\* channel while the registry held records
C33_Witness ==
    /\ Telegram.FILE_TO_LINK_DUMP = 0
    /\ up[1].pc = "done" /\ up[1].is_video
    /\ up[2].pc = "done" /\ ~up[2].is_video
    /\ Len(AllRecords) = 2
    /\ temp_cache = <<>>
    /\ \A c \in Clients : work_loads[c] = 0

----------------------------------------------------------------------------
(* sanitize_filename: names of the links *)

MaxNameLen == 4

\* the characters the pattern [^a-zA-Z0-9._-] keeps
SafeChars ==
    {"a", "b", "c", "d", "e", "f", "g", "h", "i", "j", "k", "l", "m",
     "n", "o", "p", "q", "r", "s", "t", "u", "v", "w", "x", "y", "z",
     "A", "B", "C", "D", "E", "F", "G", "H", "I", "J", "K", "L", "M",
     "N", "O", "P", "Q", "R", "S", "T", "U", "V", "W", "X", "Y", "Z",
     "0", "1", "2", "3", "4", "5", "6", "7", "8", "9", ".", "_", "-"}

IsSafeChar(c) == c \in SafeChars

\* the position of the last dot of s, 0 when s has none
LastDot(s) ==
    IF \E i \in 1..Len(s) : s[i] = "."
    THEN CHOOSE i \in 1..Len(s) : s[i] = "." /\ \A j \in (i + 1)..Len(s) : s[j] # "."
    ELSE 0

\* filename.rsplit('.', 1)
RSplitDot(filename) ==
    IF LastDot(filename) = 0 THEN <<filename>>
    ELSE <<SubSeq(filename, 1, LastDot(filename) - 1),
           SubSeq(filename, LastDot(filename) + 1, Len(filename))>>

\* name.replace(' ', '_')
ReplaceSpaces(s) == [i \in 1..Len(s) |-> IF s[i] = " " THEN "_" ELSE s[i]]

\* re.sub(r'[^a-zA-Z0-9._-]', '', name)
RemoveUnsafe(s) == SelectSeq(s, IsSafeChar)

\* re.sub(r'_+', '_', name)
RECURSIVE CollapseUnderscores(_)
CollapseUnderscores(s) ==
    IF Len(s) < 2 THEN s
    ELSE IF s[1] = "_" /\ s[2] = "_" THEN CollapseUnderscores(Tail(s))
    ELSE <<s[1]>> \o CollapseUnderscores(Tail(s))

\* name.strip('_')
StripUnderscores(s) ==
    LET kept == {i \in 1..Len(s) : s[i] # "_"} IN
    IF kept = {} THEN <<>>
    ELSE SubSeq(s, CHOOSE i \in kept : \A j \in kept : i <= j,
                   CHOOSE i \in kept : \A j \in kept : j <= i)

\* sanitize_filename(filename): only the part before the last dot is cleaned,
\* the extension is appended as it came
sanitize_filename(filename) ==
    LET name_parts == RSplitDot(filename)
        ext == IF Len(name_parts) = 2 THEN name_parts[2] ELSE <<>>
        name == StripUnderscores(CollapseUnderscores(RemoveUnsafe(ReplaceSpaces(
                    IF Len(name_parts) = 2 THEN name_parts[1] ELSE filename))))
    IN  IF ext # <<>> THEN name \o <<".">> \o ext ELSE name

\* the characters of the file names tried, and the names of up to MaxNameLen
\* characters
FilenameChars == {"a", "_", " ", ".", "#", "-"}

Filenames == UNION {[1..n -> FilenameChars] : n \in 0..MaxNameLen}

\* url_safe_filename = sanitize_filename(file_name)
SanitizeCall(filename) ==
    /\ san.pc = "idle"
    /\ san' = [san EXCEPT !.pc = "called", !.filename = filename,
                          !.url_safe_filename = sanitize_filename(filename)]
    /\ UNCHANGED <<work_loads, class_cache, dump, issued, Telegram, shards, temp_cache,
                   lk, mg, up, rq>>

\* sanitize_filename applied to the name it returned
SanitizeAgain ==
    /\ san.pc = "called"
    /\ san' = [san EXCEPT !.pc = "called_again",
                          !.again = sanitize_filename(san.url_safe_filename)]
    /\ UNCHANGED <<work_loads, class_cache, dump, issued, Telegram, shards, temp_cache,
                   lk, mg, up, rq>>

NextSanitize ==
    \/ \E filename \in Filenames : SanitizeCall(filename)
    \/ SanitizeAgain

SpecSanitize == Init /\ [][NextSanitize]_vars

\* C34 (as claimed): every character of the name sanitize_filename returns,
\* the extension after the last dot included, is in [A-Za-z0-9._-], and
\* sanitize_filename applied to the returned name returns it unchanged
C34_SanitizeSafeAndIdempotent ==
    /\ san.pc # "idle" =>
          \A i \in 1..Len(san.url_safe_filename) : IsSafeChar(san.url_safe_filename[i])
    /\ san.pc = "called_again" => san.again = san.url_safe_filename

====
